---- MODULE Spec2Model ----
(***************************************************************************)
(* Model of onnx/combine_preprocessor.ipynb: a notebook whose code cells   *)
(* train a linear regression, export it to ONNX, build the 4-element       *)
(* arithmetic-progression expander graph by hand, merge the two graphs     *)
(* with onnx.compose.merge_models and run the results with onnxruntime.    *)
(*                                                                         *)
(* The state is the notebook kernel: its global variables, the files in    *)
(* the working directory, and the position in the document.  There is one  *)
(* action per code cell; a cell that raises stops the run (err).           *)
(*                                                                         *)
(* Tensors hold float32 values in the notebook; here they hold small       *)
(* integers, all exactly representable in float32, so that + and * are     *)
(* exact.  A tensor is [dims, data] with data in row-major order.  A       *)
(* dynamic dimension (None) of a declared shape is written -1.             *)
(***************************************************************************)
EXTENDS Integers, Sequences, FiniteSets, TLC

VARIABLES pc, err, model, onnx_model, nodes, output_value, files, sess,
          test_input, output, preprocessor, lr_model, preprocessor_opset21,
          io_map, combined_model

vars == <<pc, err, model, onnx_model, nodes, output_value, files, sess,
          test_input, output, preprocessor, lr_model, preprocessor_opset21,
          io_map, combined_model>>

\* ---------------------------------------------------------------- bounds

\* Trained coefficients range over -1..MaxCoef, the intercept over
\* -1..MaxIntercept, the test input over -1..MaxInput.
MaxCoef == 1
MaxIntercept == 1
MaxInput == 2

CoefValues == -1 .. MaxCoef
InterceptValues == -1 .. MaxIntercept
InputValues == -1 .. MaxInput

\* ------------------------------------------------------------ basic data

\* A name that is bound to nothing yet (an unset global, a missing file).
None == [kind |-> "None"]

FLOAT == "FLOAT"

Tensor(dims, data) == [dims |-> dims, data |-> data]

\* helper.make_tensor_value_info(name, elem_type, shape)
make_tensor_value_info(name, elem_type, shape) ==
    [name |-> name, elem_type |-> elem_type, shape |-> shape]

\* helper.make_node(op_type, inputs, outputs, **attrs)
make_node(op_type, inputs, outputs, attrs) ==
    [op_type |-> op_type, input |-> inputs, output |-> outputs, attrs |-> attrs]

\* A node's attributes are a list of named attributes, as in NodeProto.
NoAttrs == <<>>
ValueAttr(t) == <<[name |-> "value", t |-> t]>>
AxisAttr(i) == <<[name |-> "axis", i |-> i]>>

\* helper.make_node("Constant", [], [name], value=helper.make_tensor(name, FLOAT, [1], [c]))
ConstantNode(name, c) ==
    make_node("Constant", <<>>, <<name>>, ValueAttr(Tensor(<<1>>, <<c>>)))

\* The declared input of the expander: "input", FLOAT, [1].
input_value == make_tensor_value_info("input", FLOAT, <<1>>)

\* The declared output of the expander: <name>, FLOAT, [4].  The notebook
\* declares "output"; OutputNames adds a name no node produces.
OutputValue(name) == make_tensor_value_info(name, FLOAT, <<4>>)

OutputNames == {"output", "result"}

\* The notebook's list with the Concat reading its inputs in reverse.
NotebookNodesConcatReversed ==
    << ConstantNode("one", 1), ConstantNode("two", 2), ConstantNode("three", 3),
       make_node("Add", <<"input", "one">>, <<"input_plus_1">>, NoAttrs),
       make_node("Add", <<"input", "two">>, <<"input_plus_2">>, NoAttrs),
       make_node("Add", <<"input", "three">>, <<"input_plus_3">>, NoAttrs),
       make_node("Concat",
                 <<"input_plus_3", "input_plus_2", "input_plus_1", "input">>,
                 <<"output">>, AxisAttr(0)) >>

\* The node list of the notebook, in its order.
NotebookNodes ==
    << ConstantNode("one", 1), ConstantNode("two", 2), ConstantNode("three", 3),
       make_node("Add", <<"input", "one">>, <<"input_plus_1">>, NoAttrs),
       make_node("Add", <<"input", "two">>, <<"input_plus_2">>, NoAttrs),
       make_node("Add", <<"input", "three">>, <<"input_plus_3">>, NoAttrs),
       make_node("Concat",
                 <<"input", "input_plus_1", "input_plus_2", "input_plus_3">>,
                 <<"output">>, AxisAttr(0)) >>

\* The notebook's list with its third Add reading a slot nothing defines.
NodesUndefinedSlot ==
    [NotebookNodes EXCEPT ![6] =
        make_node("Add", <<"input", "four">>, <<"input_plus_3">>, NoAttrs)]

\* The notebook's list without its Concat: nothing produces "output".
NodesNoConcat == SubSeq(NotebookNodes, 1, 6)

\* The node lists the builder is applied to.
NodeLists == {NotebookNodes, NodesUndefinedSlot, NodesNoConcat}

\* -------------------------------------------------- graphs and models

\* helper.make_graph(nodes, name, inputs, outputs): a GraphProto holding
\* what it is given.  Nothing is validated here.
make_graph(ns, name, inputs, outputs) ==
    [name |-> name, node |-> ns, input |-> inputs, output |-> outputs]

OpsetId(domain, version) == [domain |-> domain, version |-> version]

\* The operator-set version helper.make_model stamps by default is the one
\* of the installed onnx release; the one convert_sklearn stamps is the one
\* of the installed skl2onnx.  Neither is fixed by the notebook.
DefaultOpsets == {21, 22}
ExporterOpsets == {20, 21}

\* helper.make_model(graph, producer_name=...), with the default opset.
make_model(g, producer_name, opset) ==
    [kind |-> "ModelProto", producer_name |-> producer_name,
     opset_import |-> <<OpsetId("", opset)>>, graph |-> g]

\* The version tag of a model: its operator-set version for the default domain.
RECURSIVE VersionIn(_, _)
VersionIn(imports, domain) ==
    IF imports = <<>> THEN -1
    ELSE IF Head(imports).domain = domain THEN Head(imports).version
    ELSE VersionIn(Tail(imports), domain)

VersionTag(m) == VersionIn(m.opset_import, "")

\* Names of a list of value infos, and the sets of names a graph declares.
Names(vis) == [i \in 1 .. Len(vis) |-> vis[i].name]
Range(s) == {s[i] : i \in 1 .. Len(s)}
InputNames(g) == Range(Names(g.input))
OutputNamesOf(g) == Range(Names(g.output))

\* The slots the first k nodes of a graph produce.
ProducedBy(ns, k) == UNION {Range(ns[i].output) : i \in 1 .. k}

\* ----------------------------------------------------- model exporter

\* initial_type = [('float_input', FloatTensorType([None, 4]))]
initial_type == <<make_tensor_value_info("float_input", FLOAT, <<-1, 4>>)>>

LinearRegressorAttrs(coef, intercept) ==
    <<[name |-> "coefficients", floats |-> coef],
      [name |-> "intercepts", floats |-> <<intercept>>]>>

\* convert_sklearn(model, initial_types=initial_type) for a fitted
\* LinearRegression: one LinearRegressor node from the declared input to
\* "variable", declared [None, 1].
convert_sklearn(m, initial_types, opset) ==
    [kind |-> "ModelProto", producer_name |-> "skl2onnx",
     opset_import |-> <<OpsetId("ai.onnx.ml", 1), OpsetId("", opset)>>,
     graph |-> make_graph(
        <<make_node("LinearRegressor", Names(initial_types), <<"variable">>,
                    LinearRegressorAttrs(m.coef_, m.intercept_))>>,
        "skl2onnx_graph", initial_types,
        <<make_tensor_value_info("variable", FLOAT, <<-1, 1>>)>>)]

\* ------------------------------------------------------ save and load

\* A serialized model is a list of tagged fields; a repeated field keeps the
\* order of its elements.
FieldSeq(tag, s) == [i \in 1 .. Len(s) |-> [tag |-> tag, item |-> s[i]]]

SerializeDroppingOpset(m) ==
    <<[tag |-> "producer_name", str |-> m.producer_name],
      [tag |-> "graph.name", str |-> m.graph.name]>>
    \o FieldSeq("graph.node", m.graph.node)
    \o FieldSeq("graph.input", m.graph.input)
    \o FieldSeq("graph.output", m.graph.output)

\* ModelProto.SerializeToString()
SerializeToString(m) ==
    <<[tag |-> "producer_name", str |-> m.producer_name]>>
    \o FieldSeq("opset_import", m.opset_import)
    \o <<[tag |-> "graph.name", str |-> m.graph.name]>>
    \o FieldSeq("graph.node", m.graph.node)
    \o FieldSeq("graph.input", m.graph.input)
    \o FieldSeq("graph.output", m.graph.output)

Fields(bytes, tag) == SelectSeq(bytes, LAMBDA e : e.tag = tag)
Items(bytes, tag) ==
    LET fs == Fields(bytes, tag) IN [i \in 1 .. Len(fs) |-> fs[i].item]
Str(bytes, tag) ==
    LET fs == Fields(bytes, tag) IN IF fs = <<>> THEN "" ELSE fs[Len(fs)].str

\* ModelProto.ParseFromString(bytes)
ParseFromString(bytes) ==
    [kind |-> "ModelProto", producer_name |-> Str(bytes, "producer_name"),
     opset_import |-> Items(bytes, "opset_import"),
     graph |-> make_graph(Items(bytes, "graph.node"), Str(bytes, "graph.name"),
                          Items(bytes, "graph.input"),
                          Items(bytes, "graph.output"))]

FileNames == {"linear_regression.onnx", "ap_expander.onnx", "combined_model.onnx"}

File(bytes) == [kind |-> "File", bytes |-> bytes]

\* What a previous run may have left in the working directory.
StaleFile == File(<<[tag |-> "producer_name", str |-> "previous run"]>>)

\* onnx.save(m, path) / f.write(m.SerializeToString())
Save(fs, path, m) == [fs EXCEPT ![path] = File(SerializeToString(m))]

\* onnx.load(path), for a path that exists
Load(fs, path) == ParseFromString(fs[path].bytes)

\* ------------------------------------------------------- the executor

\* What onnxruntime checks of a graph when a session is created: every slot
\* a node reads is a declared input or the output of an earlier node, and
\* every declared output exists in the graph.
ValidGraph(g) ==
    /\ \A i \in 1 .. Len(g.node) :
          Range(g.node[i].input) \subseteq InputNames(g) \cup ProducedBy(g.node, i - 1)
    /\ OutputNamesOf(g) \subseteq InputNames(g) \cup ProducedBy(g.node, Len(g.node))

AttrOf(n, name) ==
    n.attrs[CHOOSE i \in 1 .. Len(n.attrs) : n.attrs[i].name = name]

\* Add with numpy broadcasting, for tensors of rank 1.
Add(a, b) ==
    LET la == Len(a.data)
        lb == Len(b.data)
        l == IF la >= lb THEN la ELSE lb
    IN Tensor(<<l>>, [i \in 1 .. l |->
                        a.data[IF la = 1 THEN 1 ELSE i] + b.data[IF lb = 1 THEN 1 ELSE i]])

\* Concat on axis 0, for tensors of rank 1.
RECURSIVE ConcatData(_)
ConcatData(ts) ==
    IF ts = <<>> THEN <<>> ELSE Head(ts).data \o ConcatData(Tail(ts))

Concat(ts) == LET d == ConcatData(ts) IN Tensor(<<Len(d)>>, d)

\* sum over k of c[k] * x[off + k]
RECURSIVE Dot(_, _, _, _)
Dot(c, x, off, k) ==
    IF k = 0 THEN 0 ELSE c[k] * x[off + k] + Dot(c, x, off, k - 1)

\* LinearRegressor: each row of K features gives dot(coefficients, row) +
\* intercept; an input of rank 1 is taken as a single row.  Output [N, 1].
LinearRegressor(x, coef, intercepts) ==
    LET K == Len(coef)
        N == Len(x.data) \div K
    IN Tensor(<<N, 1>>,
              [n \in 1 .. N |-> Dot(coef, x.data, (n - 1) * K, K) + intercepts[1]])

\* One node applied to the values of the slots it reads.
ApplyNode(n, env) ==
    LET ins == [i \in 1 .. Len(n.input) |-> env[n.input[i]]] IN
    CASE n.op_type = "Constant" -> AttrOf(n, "value").t
      [] n.op_type = "Add" -> Add(ins[1], ins[2])
      [] n.op_type = "Concat" -> Concat(ins)
      [] n.op_type = "LinearRegressor" ->
            LinearRegressor(ins[1], AttrOf(n, "coefficients").floats,
                            AttrOf(n, "intercepts").floats)

\* The nodes run in their order, each binding its output slot.
RECURSIVE RunNodes(_, _)
RunNodes(ns, env) ==
    IF ns = <<>> THEN env
    ELSE LET n == Head(ns)
             v == ApplyNode(n, env)
             out == n.output[1]
         IN RunNodes(Tail(ns),
                     [s \in DOMAIN env \cup {out} |-> IF s = out THEN v ELSE env[s]])

\* sess.run(None, {input_name: x}): the values of the declared outputs.
Run(m, input_name, x) ==
    LET env == RunNodes(m.graph.node, [s \in {input_name} |-> x])
    IN [i \in 1 .. Len(m.graph.output) |-> env[m.graph.output[i].name]]

\* ------------------------------------------ version converter, composer

\* The opset the merge cell converts the preprocessor to.
TargetOpset == 21

\* version_converter.convert_version(m, target): a new model, tagged with
\* the target version for the default domain.  Constant, Add and Concat are
\* the same operators at every version of DefaultOpsets and at the target.
convert_version(m, target) ==
    [m EXCEPT !.opset_import =
        [i \in 1 .. Len(m.opset_import) |->
            IF m.opset_import[i].domain = ""
            THEN OpsetId("", target) ELSE m.opset_import[i]]]

Raised(exc) == [kind |-> "Raised", exc |-> exc]

\* merge_models refuses two models that give one domain two versions.
OpsetConflict(imports) ==
    \E i, j \in 1 .. Len(imports) :
        /\ imports[i].domain = imports[j].domain
        /\ imports[i].version # imports[j].version

\* The producer of a mapped consumer name (the io_map reversed).
Producer(iomap, name) ==
    iomap[CHOOSE i \in 1 .. Len(iomap) : iomap[i][2] = name][1]

MappedOuts(iomap) == {iomap[i][1] : i \in 1 .. Len(iomap)}
MappedIns(iomap) == {iomap[i][2] : i \in 1 .. Len(iomap)}

EdgeNames(g, exclude) ==
    (UNION {Range(g.node[i].input) \cup Range(g.node[i].output) :
               i \in 1 .. Len(g.node)}) \ exclude

\* check_overlapping_names: slot names the two graphs share, the mapped
\* consumer names aside.
OverlappingNames(g1, g2, iomap) ==
    EdgeNames(g1, {}) \cap EdgeNames(g2, MappedIns(iomap))

\* A downstream node left reading its own input names.
RewireNone(n, iomap) == n

\* A downstream node with every mapped input renamed to its producer.
Rewire(n, iomap) ==
    [n EXCEPT !.input =
        [i \in 1 .. Len(n.input) |->
            IF n.input[i] \in MappedIns(iomap)
            THEN Producer(iomap, n.input[i]) ELSE n.input[i]]]

\* merge_graphs collecting upstream's nodes without keeping their order.
merge_graphs_Unordered(g1, g2, iomap) ==
    make_graph(
        <<g1.node[2], g1.node[1]>> \o SubSeq(g1.node, 3, Len(g1.node))
            \o [i \in 1 .. Len(g2.node) |-> Rewire(g2.node[i], iomap)],
        "AP_Expander_Graph_skl2onnx_graph",
        g1.input \o SelectSeq(g2.input, LAMBDA vi : vi.name \notin MappedIns(iomap)),
        SelectSeq(g1.output, LAMBDA vi : vi.name \notin MappedOuts(iomap)) \o g2.output)

\* merge_graphs declaring every input and output of both graphs.
merge_graphs_ExposeAll(g1, g2, iomap) ==
    make_graph(
        g1.node \o [i \in 1 .. Len(g2.node) |-> Rewire(g2.node[i], iomap)],
        "AP_Expander_Graph_skl2onnx_graph",
        g1.input \o g2.input,
        g1.output \o g2.output)

\* merge_graphs(g1, g2, io_map), once its checks have passed.
merge_graphs(g1, g2, iomap) ==
    make_graph(
        g1.node \o [i \in 1 .. Len(g2.node) |-> Rewire(g2.node[i], iomap)],
        "AP_Expander_Graph_skl2onnx_graph",
        g1.input \o SelectSeq(g2.input, LAMBDA vi : vi.name \notin MappedIns(iomap)),
        SelectSeq(g1.output, LAMBDA vi : vi.name \notin MappedOuts(iomap)) \o g2.output)

\* Some mapped pair of declared value infos differs in elem_type or shape.
IoTypeMismatch(g1, g2, iomap) ==
    \E i \in 1 .. Len(iomap) :
       \E a \in 1 .. Len(g1.output), b \in 1 .. Len(g2.input) :
          /\ g1.output[a].name = iomap[i][1]
          /\ g2.input[b].name = iomap[i][2]
          /\ \/ g1.output[a].elem_type # g2.input[b].elem_type
             \/ g1.output[a].shape # g2.input[b].shape

\* checker.check_model: the nodes are topologically sorted.
check_model(m) ==
    \A i \in 1 .. Len(m.graph.node) :
        Range(m.graph.node[i].input)
            \subseteq InputNames(m.graph) \cup ProducedBy(m.graph.node, i - 1)

\* merge_models with a check that mapped pairs agree in elem_type and shape.
merge_models_ShapeChecked(m1, m2, iomap) ==
    IF OpsetConflict(m1.opset_import \o m2.opset_import) THEN Raised("ValueError")
    ELSE IF \E i \in 1 .. Len(iomap) :
               \/ iomap[i][1] \notin OutputNamesOf(m1.graph)
               \/ iomap[i][2] \notin InputNames(m2.graph)
         THEN Raised("ValueError")
    ELSE IF IoTypeMismatch(m1.graph, m2.graph, iomap) THEN Raised("ValueError")
    ELSE [kind |-> "ModelProto",
          producer_name |-> "onnx.compose.merge_models",
          opset_import |-> m1.opset_import \o m2.opset_import,
          graph |-> [name |-> "AP_Expander_Graph_skl2onnx_graph",
                     node |-> m1.graph.node
                                 \o [i \in 1 .. Len(m2.graph.node) |->
                                        Rewire(m2.graph.node[i], iomap)],
                     input |-> m1.graph.input,
                     output |-> m2.graph.output]]

\* onnx.compose.merge_models(m1, m2, io_map): the merged model, or the
\* exception it raises.  No check reads a value info's elem_type or shape.
merge_models(m1, m2, iomap) ==
    IF OpsetConflict(m1.opset_import \o m2.opset_import) THEN Raised("ValueError")
    ELSE IF \E i \in 1 .. Len(iomap) :
               \/ iomap[i][1] \notin OutputNamesOf(m1.graph)
               \/ iomap[i][2] \notin InputNames(m2.graph)
         THEN Raised("ValueError")
    ELSE IF OverlappingNames(m1.graph, m2.graph, iomap) # {} THEN Raised("ValueError")
    ELSE LET m == [kind |-> "ModelProto",
                   producer_name |-> "onnx.compose.merge_models",
                   opset_import |-> m1.opset_import \o m2.opset_import,
                   graph |-> merge_graphs(m1.graph, m2.graph, iomap)]
         IN IF check_model(m) THEN m ELSE Raised("ValidationError")

\* InferenceSession(path): the model the session holds, or the exception.
InferenceSession(fs, path) ==
    IF fs[path] = None THEN Raised("NoSuchFile")
    ELSE IF Fields(fs[path].bytes, "graph.name") = <<>> THEN Raised("InvalidArgument")
    ELSE IF ~ValidGraph(Load(fs, path).graph) THEN Raised("InvalidGraph")
    ELSE Load(fs, path)

\* ------------------------------------------------------------ the cells

\* The number of features of the training data: X = np.random.rand(100, 4).
NumFeatures == 4

\* The code cells in document order, by cell id.
CellOrderExportAfterBuild ==
    <<"4b883c4c", "0ec8952c", "b8f278df", "9b93b386", "fe9538e2", "c2124c6c",
      "249a6397", "c6fba1f3">>

CellOrder ==
    <<"4b883c4c", "0ec8952c", "9b93b386", "b8f278df", "fe9538e2", "c2124c6c",
      "249a6397", "c6fba1f3">>

\* The cell about to run, "" once the last has run.
Current == IF pc <= Len(CellOrder) THEN CellOrder[pc] ELSE ""

\* The position of a cell in the document.
Position(id) == CHOOSE i \in 1 .. Len(CellOrder) : CellOrder[i] = id

\* Cell `id` is next and no cell has raised.
AtCell(id) == err = "none" /\ Current = id

\* io_map=[("output", "float_input")], and the mappings the composer is
\* tried on: each pairs a slot of the expander with a slot of the linear model.
PipelineIoMap == << <<"output", "float_input">> >>

IoMaps == {<< <<p, c>> >> : p \in {"output", "input_plus_1"},
                            c \in {"float_input", "variable"}}

Init ==
    /\ pc = 1
    /\ err = "none"
    /\ model = None
    /\ onnx_model = None
    /\ nodes = <<>>
    /\ output_value = None
    /\ files \in [FileNames -> {None, StaleFile}]
    /\ sess = None
    /\ test_input = None
    /\ output = None
    /\ preprocessor = None
    /\ lr_model = None
    /\ preprocessor_opset21 = None
    /\ io_map = <<>>
    /\ combined_model = None

\* Cell 4b883c4c: imports.
Cell_4b883c4c ==
    /\ AtCell("4b883c4c")
    /\ pc' = pc + 1
    /\ UNCHANGED <<err, model, onnx_model, nodes, output_value, files, sess,
                   test_input, output, preprocessor, lr_model,
                   preprocessor_opset21, io_map, combined_model>>

\* Cell 0ec8952c: model = LinearRegression(); model.fit(X_train, y_train).
Cell_0ec8952c ==
    /\ AtCell("0ec8952c")
    /\ \E coef \in [1 .. NumFeatures -> CoefValues], b \in InterceptValues :
          model' = [kind |-> "LinearRegression", coef_ |-> coef, intercept_ |-> b]
    /\ pc' = pc + 1
    /\ UNCHANGED <<err, onnx_model, nodes, output_value, files, sess,
                   test_input, output, preprocessor, lr_model,
                   preprocessor_opset21, io_map, combined_model>>

\* Cell 9b93b386: convert_sklearn(model, ...) and the write of
\* linear_regression.onnx.  convert_sklearn raises for anything that is not
\* a fitted estimator.
Cell_9b93b386 ==
    /\ AtCell("9b93b386")
    /\ IF model.kind = "LinearRegression"
       THEN /\ \E opset \in ExporterOpsets :
                  onnx_model' = convert_sklearn(model, initial_type, opset)
            /\ files' = Save(files, "linear_regression.onnx", onnx_model')
            /\ pc' = pc + 1
            /\ err' = err
       ELSE /\ err' = IF model = None THEN "NameError" ELSE "TypeError"
            /\ UNCHANGED <<pc, onnx_model, files>>
    /\ UNCHANGED <<model, nodes, output_value, sess, test_input, output,
                   preprocessor, lr_model, preprocessor_opset21, io_map,
                   combined_model>>

\* Cell b8f278df, with a validation step the notebook does not have.
Cell_b8f278df_Validating ==
    /\ AtCell("b8f278df")
    /\ \E ns \in NodeLists, oname \in OutputNames, opset \in DefaultOpsets :
          LET g == make_graph(ns, "AP_Expander_Graph", <<input_value>>,
                              <<OutputValue(oname)>>)
          IN /\ nodes' = ns
             /\ output_value' = OutputValue(oname)
             /\ IF ValidGraph(g)
                THEN /\ model' = make_model(g, "AP-Expander", opset)
                     /\ files' = Save(files, "ap_expander.onnx", model')
                     /\ pc' = pc + 1
                     /\ err' = err
                ELSE /\ err' = "ValidationError"
                     /\ UNCHANGED <<pc, model, files>>
    /\ UNCHANGED <<onnx_model, sess, test_input, output, preprocessor,
                   lr_model, preprocessor_opset21, io_map, combined_model>>

\* Cell b8f278df: the expander graph is built from the node list and the
\* declared input and output, `model` is rebound to it, and it is saved as
\* ap_expander.onnx.
Cell_b8f278df ==
    /\ AtCell("b8f278df")
    /\ \E ns \in NodeLists, oname \in OutputNames, opset \in DefaultOpsets :
          /\ nodes' = ns
          /\ output_value' = OutputValue(oname)
          /\ model' = make_model(make_graph(ns, "AP_Expander_Graph",
                                            <<input_value>>, <<output_value'>>),
                                 "AP-Expander", opset)
    /\ files' = Save(files, "ap_expander.onnx", model')
    /\ pc' = pc + 1
    /\ UNCHANGED <<err, onnx_model, sess, test_input, output, preprocessor,
                   lr_model, preprocessor_opset21, io_map, combined_model>>

\* A cell that opens a session on `path` and runs it on a one-element input:
\* sess, input_name, test_input and output are rebound.
SessionCell(path) ==
    LET s == InferenceSession(files, path) IN
    /\ IF s.kind = "Raised"
       THEN /\ err' = s.exc
            /\ UNCHANGED <<pc, sess, test_input, output>>
       ELSE /\ sess' = s
            /\ \E v \in InputValues : test_input' = Tensor(<<1>>, <<v>>)
            /\ output' = Run(s, s.graph.input[1].name, test_input')[1]
            /\ pc' = pc + 1
            /\ err' = err
    /\ UNCHANGED <<model, onnx_model, nodes, output_value, files, preprocessor,
                   lr_model, preprocessor_opset21, io_map, combined_model>>

\* Cell fe9538e2: the expander is run from ap_expander.onnx.
Cell_fe9538e2 == AtCell("fe9538e2") /\ SessionCell("ap_expander.onnx")

\* Cell 249a6397: the merged model is run from combined_model.onnx.
Cell_249a6397 == AtCell("249a6397") /\ SessionCell("combined_model.onnx")

\* Cell c2124c6c, with the converter and the composer working in place on
\* the models they are given.
Cell_c2124c6c_InPlace ==
    /\ AtCell("c2124c6c")
    /\ IF files["ap_expander.onnx"] = None \/ files["linear_regression.onnx"] = None
       THEN /\ err' = "FileNotFoundError"
            /\ UNCHANGED <<pc, files, preprocessor, lr_model,
                           preprocessor_opset21, io_map, combined_model>>
       ELSE /\ preprocessor_opset21' =
                  convert_version(Load(files, "ap_expander.onnx"), TargetOpset)
            /\ preprocessor' = preprocessor_opset21'
            /\ \E iomap \in IoMaps :
                  /\ io_map' = iomap
                  /\ lr_model' =
                        [Load(files, "linear_regression.onnx") EXCEPT !.graph.node =
                            [i \in 1 .. Len(@) |-> Rewire(@[i], iomap)]]
                  /\ LET r == merge_models(preprocessor_opset21',
                                           Load(files, "linear_regression.onnx"), iomap)
                     IN IF r.kind = "Raised"
                        THEN /\ err' = r.exc
                             /\ UNCHANGED <<pc, files, combined_model>>
                        ELSE /\ combined_model' = r
                             /\ files' = Save(files, "combined_model.onnx", r)
                             /\ pc' = pc + 1
                             /\ err' = err
    /\ UNCHANGED <<model, onnx_model, nodes, output_value, sess, test_input, output>>

\* Cell c2124c6c: both files are loaded, the preprocessor is converted to
\* TargetOpset, the two models are merged under the io_map and the result
\* is saved as combined_model.onnx.  A raise leaves the globals bound so far.
Cell_c2124c6c ==
    /\ AtCell("c2124c6c")
    /\ IF files["ap_expander.onnx"] = None \/ files["linear_regression.onnx"] = None
       THEN /\ err' = "FileNotFoundError"
            /\ UNCHANGED <<pc, files, preprocessor, lr_model,
                           preprocessor_opset21, io_map, combined_model>>
       ELSE /\ preprocessor' = Load(files, "ap_expander.onnx")
            /\ lr_model' = Load(files, "linear_regression.onnx")
            /\ preprocessor_opset21' = convert_version(preprocessor', TargetOpset)
            /\ \E iomap \in IoMaps :
                  /\ io_map' = iomap
                  /\ LET r == merge_models(preprocessor_opset21', lr_model', iomap)
                     IN IF r.kind = "Raised"
                        THEN /\ err' = r.exc
                             /\ UNCHANGED <<pc, files, combined_model>>
                        ELSE /\ combined_model' = r
                             /\ files' = Save(files, "combined_model.onnx", r)
                             /\ pc' = pc + 1
                             /\ err' = err
    /\ UNCHANGED <<model, onnx_model, nodes, output_value, sess, test_input, output>>

\* Cell c6fba1f3: empty.
Cell_c6fba1f3 ==
    /\ AtCell("c6fba1f3")
    /\ pc' = pc + 1
    /\ UNCHANGED <<err, model, onnx_model, nodes, output_value, files, sess,
                   test_input, output, preprocessor, lr_model,
                   preprocessor_opset21, io_map, combined_model>>

Next ==
    \/ Cell_4b883c4c
    \/ Cell_0ec8952c
    \/ Cell_9b93b386
    \/ Cell_b8f278df
    \/ Cell_fe9538e2
    \/ Cell_c2124c6c
    \/ Cell_249a6397
    \/ Cell_c6fba1f3

Spec == Init /\ [][Next]_vars

\* ------------------------------------------------------------- claims

\* Cell `id` has run without raising.
Ran(id) == pc > Position(id)

\* The merge cell has called the composer (with whatever result).
MergeTried == io_map # <<>>

\* The expander's session cell has run and the combined one has not: output
\* is the expander's result for test_input.
ExpanderOutput == Ran("fe9538e2") /\ ~Ran("249a6397")

\* C1: for every input v, the expander graph run on [v] yields exactly the
\* 4-element vector [v, v+1, v+2, v+3], in that order.
Thm_C1 ==
    ExpanderOutput =>
        LET v == test_input.data[1]
        IN output = Tensor(<<4>>, <<v, v + 1, v + 2, v + 3>>)

\* The notebook's own check: input 2.0 gives [2. 3. 4. 5.].
Wit_C1 ==
    /\ ExpanderOutput
    /\ test_input = Tensor(<<1>>, <<2>>)
    /\ output = Tensor(<<4>>, <<2, 3, 4, 5>>)

Coefficients(m) == AttrOf(m.graph.node[1], "coefficients").floats
Intercept(m) == AttrOf(m.graph.node[1], "intercepts").floats[1]

ClosedForm(c, b, v) == c[1] * v + c[2] * (v + 1) + c[3] * (v + 2) + c[4] * (v + 3) + b

\* C2: the expander composed with the linear model under output ->
\* float_input exists whenever the two version tags agree, runs without
\* error, and for every input v evaluates to the linear model applied to the
\* expander's result for v, which is c0*v + c1*(v+1) + c2*(v+2) + c3*(v+3) + b.
Thm_C2 ==
    /\ (MergeTried /\ io_map = PipelineIoMap
          /\ VersionTag(preprocessor_opset21) = VersionTag(lr_model))
       => combined_model # None
    /\ Current = "249a6397" => err = "none"
    /\ Ran("249a6397") =>
          LET v == test_input.data[1]
              expanded == Run(preprocessor_opset21, "input", test_input)[1]
          IN /\ output = Run(lr_model, "float_input", expanded)[1]
             /\ output = Tensor(<<1, 1>>,
                   <<ClosedForm(Coefficients(lr_model), Intercept(lr_model), v)>>)

\* Coefficients [1, 1, -1, 1], intercept 1, input 2: 2 + 3 - 4 + 5 + 1 = 7.
Wit_C2 ==
    /\ Ran("249a6397")
    /\ test_input = Tensor(<<1>>, <<2>>)
    /\ Coefficients(lr_model) = <<1, 1, -1, 1>>
    /\ Intercept(lr_model) = 1
    /\ output = Tensor(<<1, 1>>, <<7>>)

\* Some mapped pair joins a declared producer output and a declared
\* consumer input whose element types or shapes differ.
MappedMismatch ==
    IoTypeMismatch(preprocessor_opset21.graph, lr_model.graph, io_map)

\* Every mapped name is declared: producers by upstream, consumers by downstream.
MappedNamesDeclared ==
    \A i \in 1 .. Len(io_map) :
        /\ io_map[i][1] \in OutputNamesOf(preprocessor_opset21.graph)
        /\ io_map[i][2] \in InputNames(lr_model.graph)

\* C3 as stated: the composer raises, and produces no composed graph,
\* whenever the element type or the shape of a mapped producer output
\* differs from that of the mapped consumer input.
CE_C3 ==
    (MergeTried /\ MappedMismatch) => (err # "none" /\ combined_model = None)

\* C3 amended: the composer raises ValueError and produces no composed graph
\* when a mapped name is not declared or the version tags differ, and
\* composes otherwise: it does not compare element types or shapes.  The
\* pipeline's mapping pairs the output declared [4] with the input declared
\* [None, 4], a mismatch that does not make it raise.
Thm_C3 ==
    MergeTried =>
        /\ combined_model = None <=>
              \/ ~MappedNamesDeclared
              \/ VersionTag(preprocessor_opset21) # VersionTag(lr_model)
        /\ combined_model = None => err = "ValueError"
        /\ io_map = PipelineIoMap =>
              /\ preprocessor_opset21.graph.output[1].shape = <<4>>
              /\ lr_model.graph.input[1].shape = <<-1, 4>>
              /\ MappedMismatch

Wit_C3 ==
    /\ MergeTried
    /\ io_map = PipelineIoMap
    /\ MappedMismatch
    /\ combined_model # None
    /\ err = "none"

\* The builder cell has run on some node list.
BuilderRan == nodes # <<>>

\* A declared output is the output of no node, or a node reads a slot that
\* is neither a declared input nor the output of an earlier node.
Malformed ==
    \/ \E i \in 1 .. Len(nodes) :
          ~(Range(nodes[i].input) \subseteq {input_value.name} \cup ProducedBy(nodes, i - 1))
    \/ output_value.name \notin ProducedBy(nodes, Len(nodes))

CE_C5 ==
    MergeTried =>
        /\ combined_model # None
              => VersionTag(preprocessor_opset21) = VersionTag(lr_model)
        /\ VersionTag(preprocessor_opset21) # VersionTag(lr_model)
              => (err # "none" /\ combined_model = None)
        /\ VersionTag(preprocessor_opset21) = VersionTag(lr_model)

\* The downstream node with the inputs it has in the composed graph.
SameButInputs(n, d) == n = [d EXCEPT !.input = n.input]

\* C6: in every composed graph the nodes are upstream's in their order, then
\* downstream's in their order (with mapped inputs renamed to their
\* producers); every slot a node reads is a declared input or the output of
\* an earlier node (a Constant reads none); every declared output is
\* produced by some node.
Thm_C6 ==
    combined_model # None =>
        LET up == preprocessor_opset21.graph
            down == lr_model.graph
            g == combined_model.graph
            k == Len(up.node)
        IN /\ Len(g.node) = k + Len(down.node)
           /\ SubSeq(g.node, 1, k) = up.node
           /\ \A j \in 1 .. Len(down.node) :
                 /\ SameButInputs(g.node[k + j], down.node[j])
                 /\ \A x \in 1 .. Len(down.node[j].input) :
                       g.node[k + j].input[x] =
                          IF down.node[j].input[x] \in MappedIns(io_map)
                          THEN Producer(io_map, down.node[j].input[x])
                          ELSE down.node[j].input[x]
           /\ \A i \in 1 .. Len(g.node) :
                 Range(g.node[i].input) \subseteq InputNames(g) \cup ProducedBy(g.node, i - 1)
           /\ OutputNamesOf(g) \subseteq ProducedBy(g.node, Len(g.node))

Wit_C6 ==
    /\ combined_model # None
    /\ Len(combined_model.graph.node) = 8
    /\ combined_model.graph.node[7].op_type = "Concat"
    /\ combined_model.graph.node[8].op_type = "LinearRegressor"
    /\ combined_model.graph.node[8].input = <<"output">>

\* C7: the declared inputs of a composed graph are exactly upstream's and
\* its declared outputs exactly downstream's; no mapped name is exposed.  In
\* the pipeline the only input is the expander's "input" and the outputs are
\* the linear model's.
Thm_C7 ==
    /\ combined_model # None =>
          LET g == combined_model.graph
          IN /\ g.input = preprocessor_opset21.graph.input
             /\ g.output = lr_model.graph.output
             /\ MappedIns(io_map) \cap InputNames(g) = {}
             /\ MappedOuts(io_map) \cap OutputNamesOf(g) = {}
             /\ Names(g.input) = <<"input">>
    /\ Ran("249a6397") =>
          /\ Names(sess.graph.input) = <<"input">>
          /\ sess.graph.output = onnx_model.graph.output

Wit_C7 ==
    /\ Ran("249a6397")
    /\ MappedIns(io_map) = {"float_input"}
    /\ MappedOuts(io_map) = {"output"}
    /\ Names(sess.graph.input) = <<"input">>
    /\ Names(sess.graph.output) = <<"variable">>

Thm_C10 ==
    /\ AtCell("9b93b386") => model.kind = "LinearRegression"
    /\ model.kind = "ModelProto" => onnx_model # None
    /\ AtCell("fe9538e2") =>
          files["ap_expander.onnx"] = File(SerializeToString(model))
    /\ AtCell("c2124c6c") =>
          /\ files["ap_expander.onnx"] = File(SerializeToString(model))
          /\ files["linear_regression.onnx"] = File(SerializeToString(onnx_model))
    /\ AtCell("249a6397") =>
          files["combined_model.onnx"] = File(SerializeToString(combined_model))

\* The merge cell is about to read two files this run wrote, over a
\* combined_model.onnx left by a previous run.
Wit_C10 ==
    /\ AtCell("c2124c6c")
    /\ model.kind = "ModelProto"
    /\ onnx_model.graph.node[1].op_type = "LinearRegressor"
    /\ files["combined_model.onnx"] = StaleFile
    /\ files["ap_expander.onnx"] = File(SerializeToString(model))

====
